---- MODULE Spec2Model ----
(***************************************************************************)
(* The menu service of src/server.js: an in-memory collection `menu`, the  *)
(* id counter `nextId`, and the five routes under /api/menu with the       *)
(* validation chain that guards POST and PUT.                              *)
(*                                                                         *)
(* JSON values are records [t, s, n, b, a]: t is the JavaScript type tag,  *)
(* s the characters of a string (a sequence of one-character strings), n a *)
(* number in hundredths (Num(850) is 8.5), b a boolean, a an array.        *)
(***************************************************************************)
EXTENDS Integers, Sequences, FiniteSets

\* menu and nextId are the store; req and res are the request being served and its
\* response; assigned is a history variable, the set of ids ever given to an item.
VARIABLES menu, nextId, req, res, assigned

vars == <<menu, nextId, req, res, assigned>>

\* ------------------------------------------------------------ bounds
\* Create is not offered once the counter has reached MaxNextId.
MaxNextId == 5

\* ------------------------------------------------------------ JSON values
\* numbers are held in hundredths: the prices of the source have two decimals
Scale == 10 * 10

Undef == [t |-> "undefined", s |-> <<>>, n |-> 0, b |-> FALSE, a |-> <<>>]
Null == [t |-> "null", s |-> <<>>, n |-> 0, b |-> FALSE, a |-> <<>>]
NaN == [t |-> "NaN", s |-> <<>>, n |-> 0, b |-> FALSE, a |-> <<>>]
Str(cs) == [t |-> "string", s |-> cs, n |-> 0, b |-> FALSE, a |-> <<>>]
Num(k) == [t |-> "number", s |-> <<>>, n |-> k, b |-> FALSE, a |-> <<>>]
Bool(x) == [t |-> "boolean", s |-> <<>>, n |-> 0, b |-> x, a |-> <<>>]
Arr(xs) == [t |-> "array", s |-> <<>>, n |-> 0, b |-> FALSE, a |-> xs]

\* typeof v === 'string', typeof v === 'boolean'
IsStringV(v) == v.t = "string"
IsBooleanV(v) == v.t = "boolean"

\* !!v : undefined, null, NaN, "", 0 and false are falsy
Truthy(v) ==
  CASE v.t = "undefined" -> FALSE
    [] v.t = "null" -> FALSE
    [] v.t = "NaN" -> FALSE
    [] v.t = "string" -> v.s # <<>>
    [] v.t = "number" -> v.n # 0
    [] v.t = "boolean" -> v.b
    [] v.t = "array" -> TRUE

\* ------------------------------------------------------------ strings
Digits == <<"0", "1", "2", "3", "4", "5", "6", "7", "8", "9">>

IsDigit(c) == \E i \in 1..10 : Digits[i] = c

DigitVal(c) == (CHOOSE i \in 1..10 : Digits[i] = c) - 1

IsSpace(c) == c = " "

\* String.prototype.trim
RECURSIVE TrimLeft(_)
TrimLeft(cs) == IF cs # <<>> /\ IsSpace(Head(cs)) THEN TrimLeft(Tail(cs)) ELSE cs

RECURSIVE TrimRight(_)
TrimRight(cs) ==
  IF cs # <<>> /\ IsSpace(cs[Len(cs)]) THEN TrimRight(SubSeq(cs, 1, Len(cs) - 1)) ELSE cs

Trim(cs) == TrimRight(TrimLeft(cs))

\* decimal text of a natural number
RECURSIVE NatToStr(_)
NatToStr(k) == IF k < 10 THEN <<Digits[k + 1]>> ELSE NatToStr(k \div 10) \o <<Digits[(k % 10) + 1]>>

\* the fraction digits of h hundredths, trailing zeros dropped
FracToStr(h) ==
  IF h = 0 THEN <<>>
  ELSE IF h % 10 = 0 THEN <<".", Digits[(h \div 10) + 1]>>
  ELSE <<".", Digits[(h \div 10) + 1], Digits[(h % 10) + 1]>>

\* String(number) for a number held in hundredths
NumToStr(k) ==
  LET m == IF k < 0 THEN 0 - k ELSE k
  IN (IF k < 0 THEN <<"-">> ELSE <<>>) \o NatToStr(m \div Scale) \o FracToStr(m % Scale)

\* the string a standard validator or sanitizer sees for a scalar value (arrays are
\* tried for ingredients only, whose chain has no standard validator)
toString(v) ==
  CASE v.t = "string" -> v.s
    [] v.t = "number" -> NumToStr(v.n)
    [] v.t = "boolean" -> IF v.b THEN <<"t", "r", "u", "e">> ELSE <<"f", "a", "l", "s", "e">>
    [] v.t = "undefined" -> <<>>
    [] v.t = "null" -> <<>>
    [] v.t = "NaN" -> <<>>

AllDigits(cs) == \A i \in 1..Len(cs) : IsDigit(cs[i])

RECURSIVE DigitsVal(_)
DigitsVal(cs) == IF cs = <<>> THEN 0 ELSE DigitsVal(SubSeq(cs, 1, Len(cs) - 1)) * 10 + DigitVal(cs[Len(cs)])

DotAt(cs) == IF \E i \in 1..Len(cs) : cs[i] = "." THEN CHOOSE i \in 1..Len(cs) : cs[i] = "." ELSE 0

Unsigned(cs) == IF cs # <<>> /\ Head(cs) \in {"-", "+"} THEN Tail(cs) ELSE cs

IntPart(cs) == IF DotAt(cs) = 0 THEN cs ELSE SubSeq(cs, 1, DotAt(cs) - 1)

FracPart(cs) == IF DotAt(cs) = 0 THEN <<>> ELSE SubSeq(cs, DotAt(cs) + 1, Len(cs))

\* the float grammar: optional sign, digits, optional point and digits (the exponent
\* form is left out: no string tried has one)
FloatSyntax(cs) ==
  /\ cs \notin {<<>>, <<".">>, <<"-">>, <<"+">>}
  /\ AllDigits(IntPart(Unsigned(cs)))
  /\ AllDigits(FracPart(Unsigned(cs)))

\* parseFloat of a string of the float grammar, in hundredths
ParseFloat(cs) ==
  LET u == Unsigned(cs)
      f == FracPart(u) \o <<"0", "0">>
      m == DigitsVal(IntPart(u)) * Scale + DigitsVal(SubSeq(f, 1, 2))
  IN IF cs # <<>> /\ Head(cs) = "-" THEN 0 - m ELSE m

\* ------------------------------------------------------------ validators
\* validator.isLength(str, {min})
IsLength(cs, min) == Len(cs) >= min

\* validator.isFloat(str, {gt: 0})
IsFloatGt0(cs) == FloatSyntax(cs) /\ ParseFloat(cs) > 0

\* validator.isBoolean(str)
IsBooleanStr(cs) == cs \in {<<"t", "r", "u", "e">>, <<"f", "a", "l", "s", "e">>, <<"1">>, <<"0">>}

\* validator.toFloat(str)
ToFloat(v) == IF FloatSyntax(toString(v)) THEN Num(ParseFloat(toString(v))) ELSE NaN

\* validator.toBoolean(str), not strict
ToBoolean(v) == Bool(toString(v) \notin {<<"0">>, <<"f", "a", "l", "s", "e">>, <<>>})

\* isArray({min: 1})
IsArrayMin1(v) == v.t = "array" /\ Len(v.a) >= 1

Categories ==
  { <<"a", "p", "p", "e", "t", "i", "z", "e", "r">>, <<"e", "n", "t", "r", "e", "e">>,
    <<"d", "e", "s", "s", "e", "r", "t">>, <<"b", "e", "v", "e", "r", "a", "g", "e">> }

NameMin == 3
DescriptionMin == 10

\* one validator of a chain: its error entry when it fails
Check(ok, field, msg) == IF ok THEN <<>> ELSE <<[field |-> field, message |-> msg]>>

NameErrors(v) ==
  Check(Truthy(v), "name", "name required")
  \o Check(IsStringV(v), "name", "name must be a string")
  \o Check(IsLength(toString(v), NameMin), "name", "name min 3 chars")

DescriptionErrors(v) ==
  Check(Truthy(v), "description", "description required")
  \o Check(IsStringV(v), "description", "description must be a string")
  \o Check(IsLength(toString(v), DescriptionMin), "description", "description min 10 chars")

PriceErrors(v) ==
  Check(v.t # "undefined", "price", "price required")
  \o Check(IsFloatGt0(toString(v)), "price", "price must be number > 0")

CategoryErrors(v) ==
  Check(Truthy(v), "category", "category required")
  \o Check(IsStringV(v), "category", "category must be string")
  \o Check(toString(v) \in Categories, "category",
           "category must be appetizer, entree, dessert or beverage")

\* IngredientsErrors with the chain made .optional(): nothing is checked of an absent field
IngredientsErrorsOptional(v) ==
  IF v.t = "undefined" THEN <<>>
  ELSE Check(IsArrayMin1(v), "ingredients", "ingredients must be array with at least 1 item")

IngredientsErrors(v) ==
  Check(v.t # "undefined", "ingredients", "ingredients required")
  \o Check(IsArrayMin1(v), "ingredients", "ingredients must be array with at least 1 item")

AvailableErrors(v) ==
  IF v.t = "undefined" THEN <<>>
  ELSE Check(IsBooleanStr(toString(v)), "available", "available must be boolean")

\* ValidationResult as it would be if only the first failing field were reported
ValidationResultFirstField(b) ==
  IF NameErrors(b.name) # <<>> THEN NameErrors(b.name)
  ELSE IF DescriptionErrors(b.description) # <<>> THEN DescriptionErrors(b.description)
  ELSE IF PriceErrors(b.price) # <<>> THEN PriceErrors(b.price)
  ELSE IF CategoryErrors(b.category) # <<>> THEN CategoryErrors(b.category)
  ELSE IF IngredientsErrors(b.ingredients) # <<>> THEN IngredientsErrors(b.ingredients)
  ELSE AvailableErrors(b.available)

\* validationResult(req).array() after the chains of menuValidators have run
ValidationResult(b) ==
  NameErrors(b.name) \o DescriptionErrors(b.description) \o PriceErrors(b.price)
  \o CategoryErrors(b.category) \o IngredientsErrors(b.ingredients)
  \o AvailableErrors(b.available)

\* req.body after the sanitizers .toFloat() and .toBoolean() of the chains
Sanitized(b) ==
  [b EXCEPT !.price = ToFloat(b.price),
            !.available = IF b.available.t = "undefined" THEN Undef ELSE ToBoolean(b.available)]

\* ------------------------------------------------------------ responses
NoResponse == [status |-> 0, kind |-> "none", item |-> <<>>, list |-> <<>>, error |-> "", errors |-> <<>>]

JsonItem(st, it) == [NoResponse EXCEPT !.status = st, !.kind = "item", !.item = <<it>>]

JsonList(st, m) == [NoResponse EXCEPT !.status = st, !.kind = "list", !.list = m]

JsonError(st, msg) == [NoResponse EXCEPT !.status = st, !.kind = "error", !.error = msg]

JsonErrors(st, errs) == [NoResponse EXCEPT !.status = st, !.kind = "errors", !.errors = errs]

NotFound == JsonError(404, "Menu item not found")

InternalError == JsonError(500, "Internal server error")

\* what a handler leaves behind: the store and the response
Outcome(m, n, r) == [menu |-> m, nextId |-> n, res |-> r]

\* ------------------------------------------------------------ store
Item(id, name, description, price, category, ingredients, available) ==
  [id |-> id, name |-> name, description |-> description, price |-> price,
   category |-> category, ingredients |-> ingredients, available |-> available]

ClassicBurger ==
  Item(1, Str(<<"C","l","a","s","s","i","c"," ","B","u","r","g","e","r">>),
       Str(<<"B","e","e","f"," ","p","a","t","t","y"," ","w","i","t","h"," ","l","e","t","t","u","c","e",
             ","," ","t","o","m","a","t","o",","," ","c","h","e","e","s","e",","," ","s","e","s","a","m",
             "e"," ","b","u","n">>),
       Num(1299), Str(<<"e", "n", "t", "r", "e", "e">>),
       Arr(<<"beef", "lettuce", "tomato", "cheese", "bun">>), Bool(TRUE))

ChocolateLavaCake ==
  Item(2, Str(<<"C","h","o","c","o","l","a","t","e"," ","L","a","v","a"," ","C","a","k","e">>),
       Str(<<"W","a","r","m"," ","c","a","k","e"," ","w","i","t","h"," ","m","o","l","t","e","n"," ",
             "c","e","n","t","e","r"," ","+"," ","v","a","n","i","l","l","a"," ","i","c","e"," ","c",
             "r","e","a","m">>),
       Num(750), Str(<<"d", "e", "s", "s", "e", "r", "t">>),
       Arr(<<"flour", "cocoa", "eggs", "sugar", "butter">>), Bool(TRUE))

SeedMenu == <<ClassicBurger, ChocolateLavaCake>>

SeedNextId == 3

\* Number(req.params.id)
ToNumber(cs) == IF FloatSyntax(cs) THEN Num(ParseFloat(cs)) ELSE NaN

\* m.id === id
IdMatches(it, id) == id.t = "number" /\ id.n = it.id * Scale

\* menu.findIndex(m => m.id === id): the 1-based position, 0 for JavaScript's -1
FindIndex(m, id) ==
  IF \E i \in 1..Len(m) : IdMatches(m[i], id)
  THEN CHOOSE i \in 1..Len(m) : IdMatches(m[i], id) /\ \A j \in 1..(i - 1) : ~IdMatches(m[j], id)
  ELSE 0

\* Splice as menu.splice(idx) would leave the array: everything from idx on is removed
SpliceToEnd(m, idx) == SubSeq(m, 1, idx - 1)

\* menu.splice(idx, 1): the array that remains
Splice(m, idx) == SubSeq(m, 1, idx - 1) \o SubSeq(m, idx + 1, Len(m))

\* ------------------------------------------------------------ handlers
\* handleValidation: errors.isEmpty()
IsEmpty(errs) == errs = <<>>

RECURSIVE Reverse(_)
Reverse(m) == IF m = <<>> THEN <<>> ELSE Append(Reverse(Tail(m)), Head(m))

\* ListHandler as it would be with menu.reverse() in it, which reorders the array in place
ListHandlerReversed(m, n) == Outcome(Reverse(m), n, JsonList(200, Reverse(m)))

\* GET /api/menu
ListHandler(m, n) == Outcome(m, n, JsonList(200, m))

\* GetHandler as it would be with menu[id - 1] for the lookup: the id taken for a position
GetHandlerByPosition(m, n, path) ==
  LET id == ToNumber(path)
      pos == IF id.t = "number" /\ id.n % Scale = 0 THEN id.n \div Scale ELSE 0
  IN IF pos \notin 1..Len(m) THEN Outcome(m, n, NotFound) ELSE Outcome(m, n, JsonItem(200, m[pos]))

\* GET /api/menu/:id
GetHandler(m, n, path) ==
  LET idx == FindIndex(m, ToNumber(path))
  IN IF idx = 0 THEN Outcome(m, n, NotFound) ELSE Outcome(m, n, JsonItem(200, m[idx]))

\* NewItem as it would be if the id of the payload were kept when it has one
NewItemBodyId(n, b) ==
  Item(IF b.id.t = "number" THEN b.id.n \div Scale ELSE n,
       Str(Trim(b.name.s)), Str(Trim(b.description.s)), b.price, b.category, b.ingredients,
       IF IsBooleanV(b.available) THEN b.available ELSE Bool(TRUE))

\* the object literal newItem of POST, for a body whose name and description are strings
NewItem(n, b) ==
  Item(n, Str(Trim(b.name.s)), Str(Trim(b.description.s)), b.price, b.category, b.ingredients,
       IF IsBooleanV(b.available) THEN b.available ELSE Bool(TRUE))

\* PostHandler as it would be with menu.length + 1 for the id
PostHandlerCountId(m, n, b) ==
  IF ~IsStringV(b.name) \/ ~IsStringV(b.description)
  THEN Outcome(m, n + 1, InternalError)
  ELSE Outcome(Append(m, NewItem(Len(m) + 1, b)), n + 1, JsonItem(201, NewItem(Len(m) + 1, b)))

\* the POST handler proper; nextId++ is evaluated before name.trim() can throw
PostHandler(m, n, b) ==
  IF ~IsStringV(b.name) \/ ~IsStringV(b.description)
  THEN Outcome(m, n + 1, InternalError)
  ELSE Outcome(Append(m, NewItem(n, b)), n + 1, JsonItem(201, NewItem(n, b)))

\* Updated as it would be with the default of POST for available
UpdatedDefaultTrue(old, b) ==
  [old EXCEPT !.name = Str(Trim(b.name.s)), !.description = Str(Trim(b.description.s)),
              !.price = b.price, !.category = b.category, !.ingredients = b.ingredients,
              !.available = IF IsBooleanV(b.available) THEN b.available ELSE Bool(TRUE)]

\* the object literal updated of PUT
Updated(old, b) ==
  [old EXCEPT !.name = Str(Trim(b.name.s)), !.description = Str(Trim(b.description.s)),
              !.price = b.price, !.category = b.category, !.ingredients = b.ingredients,
              !.available = IF IsBooleanV(b.available) THEN b.available ELSE old.available]

\* the PUT handler proper
PutHandler(m, n, path, b) ==
  LET idx == FindIndex(m, ToNumber(path))
  IN IF idx = 0 THEN Outcome(m, n, NotFound)
     ELSE IF ~IsStringV(b.name) \/ ~IsStringV(b.description) THEN Outcome(m, n, InternalError)
     ELSE Outcome([m EXCEPT ![idx] = Updated(m[idx], b)], n, JsonItem(200, Updated(m[idx], b)))

\* DELETE /api/menu/:id
DeleteHandler(m, n, path) ==
  LET idx == FindIndex(m, ToNumber(path))
  IN IF idx = 0 THEN Outcome(m, n, NotFound)
     ELSE Outcome(Splice(m, idx), n, JsonItem(200, m[idx]))

\* ------------------------------------------------------------ requests
Body(name, description, price, category, ingredients, available, id) ==
  [name |-> name, description |-> description, price |-> price, category |-> category,
   ingredients |-> ingredients, available |-> available, id |-> id]

NoBody == Body(Undef, Undef, Undef, Undef, Undef, Undef, Undef)

VeggieWrap ==
  Body(Str(<<"V","e","g","g","i","e"," ","W","r","a","p">>),
       Str(<<"G","r","i","l","l","e","d"," ","v","e","g","g","i","e","s"," ","i","n"," ","a"," ","w",
             "r","a","p">>),
       Num(850), Str(<<"e", "n", "t", "r", "e", "e">>), Arr(<<"lettuce", "pepper">>), Undef, Undef)

\* every rule of every required field violated once
AllShort ==
  Body(Str(<<"H", "i">>), Str(<<"s", "h", "o", "r", "t">>), Num(0 - 100),
       Str(<<"s", "n", "a", "c", "k">>), Arr(<<>>), Undef, Undef)

\* accepted by the length rules, shorter than them once trimmed
Padded ==
  [VeggieWrap EXCEPT !.name = Str(<<" ", "a", " ">>),
                     !.description = Str(<<" "," ","s","h","o","r","t"," "," "," ">>),
                     !.available = Bool(TRUE)]

\* accepted with every coercion at work: padded name, price and available as strings, an id
Coerced ==
  [VeggieWrap EXCEPT !.name = Str(<<" "," ","V","e","g","g","i","e"," ","W","r","a","p"," ">>),
                     !.price = Str(<<"8", ".", "5">>),
                     !.available = Str(<<"f", "a", "l", "s", "e">>),
                     !.id = Num(Scale)]

RequiredFields == {"name", "description", "price", "category", "ingredients"}

\* VeggieWrap without one required field
Without(f) == [VeggieWrap EXCEPT ![f] = Undef]

Names == { Null, Str(<<>>), Str(<<"H", "i">>), Num(12345 * Scale) }

Descriptions == { Num(0), Str(<<"s", "h", "o", "r", "t">>) }

Prices == { Null, Num(0), Num(0 - 100), Str(<<"a", "b", "c">>), Str(<<".">>), Bool(TRUE) }

CategoryValues == { Str(<<"s", "n", "a", "c", "k">>), Str(<<>>) }

IngredientLists == { Arr(<<>>), Str(<<"l","e","t","t","u","c","e">>) }

Availables == { Bool(FALSE), Str(<<"1">>), Str(<<"y", "e", "s">>), Null }

BodyIds == { Num(Scale), Num(7 * Scale) }

\* the request bodies tried: the example payloads, VeggieWrap without a required field, and
\* VeggieWrap with one field changed
Bodies ==
  {NoBody, VeggieWrap, Coerced, Padded, AllShort}
  \cup {Without(f) : f \in RequiredFields}
  \cup {[VeggieWrap EXCEPT !.name = v] : v \in Names}
  \cup {[VeggieWrap EXCEPT !.description = v] : v \in Descriptions}
  \cup {[VeggieWrap EXCEPT !.price = v] : v \in Prices}
  \cup {[VeggieWrap EXCEPT !.category = v] : v \in CategoryValues}
  \cup {[VeggieWrap EXCEPT !.ingredients = v] : v \in IngredientLists}
  \cup {[VeggieWrap EXCEPT !.available = v] : v \in Availables}
  \cup {[VeggieWrap EXCEPT !.id = v] : v \in BodyIds}

\* the validation chains run once over each request body tried: the errors they
\* collect and the body their sanitizers leave
Validated == [b \in Bodies |-> [errors |-> ValidationResult(b), body |-> Sanitized(b)]]

\* handleValidation when errors were collected
Rejected(m, n, errs) == Outcome(m, n, JsonErrors(400, errs))

\* POST /api/menu: menuValidators, handleValidation, handler
PostRoute(m, n, b) ==
  IF ~IsEmpty(Validated[b].errors) THEN Rejected(m, n, Validated[b].errors)
  ELSE PostHandler(m, n, Validated[b].body)

\* PutRoute as it would be if the handler looked the id up before validation ran
PutRouteLookupFirst(m, n, path, b) ==
  IF FindIndex(m, ToNumber(path)) = 0 THEN Outcome(m, n, NotFound)
  ELSE IF ~IsEmpty(Validated[b].errors) THEN Rejected(m, n, Validated[b].errors)
  ELSE PutHandler(m, n, path, Validated[b].body)

\* PUT /api/menu/:id: menuValidators, handleValidation, handler
PutRoute(m, n, path, b) ==
  IF ~IsEmpty(Validated[b].errors) THEN Rejected(m, n, Validated[b].errors)
  ELSE PutHandler(m, n, path, Validated[b].body)

\* the :id path parameters tried: every id the counter can have issued, one it
\* has not, and one that is no number
Paths == {NatToStr(i) : i \in 1..MaxNextId} \cup {<<"a", "b", "c">>}

Request(method, route, path, b) == [method |-> method, route |-> route, path |-> path, body |-> b]

\* ------------------------------------------------------------ state machine
NoRequest == Request("", "", <<>>, NoBody)

\* no request is being served: requests are handled one at a time, each to completion
Idle == req = NoRequest

Init ==
  /\ menu = SeedMenu
  /\ nextId = SeedNextId
  /\ req = NoRequest
  /\ res = NoResponse
  /\ assigned = {SeedMenu[i].id : i \in 1..Len(SeedMenu)}

\* the store and the response after a handler has run
Respond(o) ==
  /\ menu' = o.menu
  /\ nextId' = o.nextId
  /\ res' = o.res

List ==
  /\ Idle
  /\ req' = Request("GET", "/api/menu", <<>>, NoBody)
  /\ Respond(ListHandler(menu, nextId))
  /\ UNCHANGED assigned

Get ==
  \E path \in Paths :
    /\ Idle
    /\ req' = Request("GET", "/api/menu/:id", path, NoBody)
    /\ Respond(GetHandler(menu, nextId, path))
    /\ UNCHANGED assigned

Create ==
  \E b \in Bodies :
    /\ Idle
    /\ nextId < MaxNextId
    /\ req' = Request("POST", "/api/menu", <<>>, b)
    /\ Respond(PostRoute(menu, nextId, b))
    /\ assigned' = assigned \cup {menu'[i].id : i \in 1..Len(menu')}

Update ==
  \E path \in Paths, b \in Bodies :
    /\ Idle
    /\ req' = Request("PUT", "/api/menu/:id", path, b)
    /\ Respond(PutRoute(menu, nextId, path, b))
    /\ UNCHANGED assigned

Delete ==
  \E path \in Paths :
    /\ Idle
    /\ req' = Request("DELETE", "/api/menu/:id", path, NoBody)
    /\ Respond(DeleteHandler(menu, nextId, path))
    /\ UNCHANGED assigned

\* the response has been sent; the request and its response are gone
End ==
  /\ ~Idle
  /\ req' = NoRequest
  /\ res' = NoResponse
  /\ UNCHANGED <<menu, nextId, assigned>>

Next == List \/ Get \/ Create \/ Update \/ Delete \/ End

Spec == Init /\ [][Next]_vars

\* ------------------------------------------------------------ vocabulary of the properties
Ids(m) == {m[i].id : i \in 1..Len(m)}

\* some item of m has the id the path names
Present(m, path) == \E i \in 1..Len(m) : IdMatches(m[i], ToNumber(path))

Max(S) == CHOOSE x \in S : \A y \in S : y <= x

IsWrite == req.method \in {"POST", "PUT"}

\* t is s without its leading and trailing spaces
IsTrimOf(t, s) ==
  /\ t = <<>> \/ (t[1] # " " /\ t[Len(t)] # " ")
  /\ \E i \in 0..Len(s) : \E j \in 0..(Len(s) - i) :
       /\ t = SubSeq(s, i + 1, Len(s) - j)
       /\ \A k \in 1..i : s[k] = " "
       /\ \A k \in (Len(s) - j + 1)..Len(s) : s[k] = " "

\* the field constraints of the data model, on a stored item
NameOk(v) == v.t = "string" /\ Len(v.s) >= 3
DescriptionOk(v) == v.t = "string" /\ Len(v.s) >= 10
PriceOk(v) == v.t = "number" /\ v.n > 0
CategoryOk(v) == v.t = "string" /\ v.s \in Categories
IngredientsOk(v) == v.t = "array" /\ Len(v.a) >= 1
AvailableOk(v) == v.t = "boolean"

ItemOk(it) ==
  /\ NameOk(it.name) /\ DescriptionOk(it.description) /\ PriceOk(it.price)
  /\ CategoryOk(it.category) /\ IngredientsOk(it.ingredients) /\ AvailableOk(it.available)

\* the fields that have an entry in a list of errors
ErrorFields(errs) == {errs[i].field : i \in 1..Len(errs)}

\* the fields of a request body that violate a rule of their chain
ViolatingFields(b) ==
  {f \in RequiredFields \cup {"available"} :
     CASE f = "name" -> ~(b.name.t = "string" /\ Len(b.name.s) >= 3)
       [] f = "description" -> ~(b.description.t = "string" /\ Len(b.description.s) >= 10)
       [] f = "price" -> ~(b.price.t \in {"number", "string"} /\ IsFloatGt0(toString(b.price)))
       [] f = "category" -> ~(b.category.t = "string" /\ b.category.s \in Categories)
       [] f = "ingredients" -> ~(b.ingredients.t = "array" /\ Len(b.ingredients.a) >= 1)
       [] f = "available" -> ~(b.available.t = "undefined" \/ IsBooleanStr(toString(b.available)))}

\* ------------------------------------------------------------ C1
\* C1 as claimed: a PUT whose id matches no item is answered 404, whatever its body is.
C1_NotFoundBeforeValidation ==
  [][(req'.method = "PUT" /\ ~Present(menu, req'.path)) => res'.status = 404]_vars

\* C1 as amended: a PUT whose id matches no item is answered 404 when its body passes
\* validation and 400 when its body violates a rule, validation running before the lookup;
\* either way the store is unchanged.
C1_NotFoundAfterValidation ==
  [][(req'.method = "PUT" /\ ~Present(menu, req'.path)) =>
       /\ res'.status = (IF ViolatingFields(req'.body) = {} THEN 404 ELSE 400)
       /\ menu' = menu /\ nextId' = nextId]_vars

\* a PUT to an id that matches nothing, with an invalid body, has been answered 400
C1_Witness ==
  /\ req.method = "PUT" /\ ~Present(menu, req.path)
  /\ ViolatingFields(req.body) # {} /\ res.status = 400

\* ------------------------------------------------------------ C2
\* C2: every item of the collection satisfies all field constraints of the data model as
\* stored, trimmed names and descriptions included.
C2_StoredItemsValid == \A i \in 1..Len(menu) : ItemOk(menu[i])

\* ------------------------------------------------------------ C3
\* C3: a successful create grows the collection by exactly one, appends the new item at the
\* end and gives it the largest id ever assigned plus 1, an id never assigned before (3 on
\* a fresh instance), whatever id the payload carries.
C3_CreateAssignsFreshId ==
  [][(req'.method = "POST" /\ res'.status = 201) =>
       /\ Len(menu') = Len(menu) + 1
       /\ res'.kind = "item" /\ menu' = Append(menu, res'.item[1])
       /\ res'.item[1].id \notin assigned
       /\ res'.item[1].id = Max(assigned) + 1
       /\ (menu = SeedMenu /\ nextId = SeedNextId => res'.item[1].id = 3)]_vars

\* a create has succeeded after the item with the highest id was deleted, with a payload
\* that carries an id of its own
C3_Witness ==
  /\ req.method = "POST" /\ res.status = 201 /\ req.body.id # Undef
  /\ res.item[1].id = 4 /\ 3 \notin Ids(menu)

\* ------------------------------------------------------------ C4
\* C4: no two items of the collection have the same id.
C4_UniqueIds == \A i, j \in 1..Len(menu) : menu[i].id = menu[j].id => i = j

\* items were created, updated and deleted, and several remain
C4_Witness ==
  /\ Ids(menu) = {2, 4} /\ assigned = {1, 2, 3, 4}
  /\ req.method = "PUT" /\ res.status = 200

\* ------------------------------------------------------------ C5
\* C5: a POST, or a PUT to an existing id, whose payload lacks a required field is answered
\* 400 and leaves the collection as it was.
C5_MissingFieldRejected ==
  [][(/\ req'.method \in {"POST", "PUT"}
      /\ req'.method = "PUT" => Present(menu, req'.path)
      /\ \E f \in RequiredFields : req'.body[f] = Undef) =>
       res'.status = 400 /\ menu' = menu]_vars

\* a PUT to an existing id without ingredients has been answered 400
C5_Witness ==
  /\ req.method = "PUT" /\ Present(menu, req.path)
  /\ req.body = Without("ingredients") /\ res.status = 400

\* ------------------------------------------------------------ C6
\* C6: a DELETE for an id of the collection is answered 200 with that item and removes
\* exactly that item, the others keeping their order and fields; a DELETE for the same id
\* right after it, like any DELETE for an id that is not there, is answered 404 and
\* changes nothing.
C6_DeleteRemovesExactlyOne ==
  [][req'.method = "DELETE" =>
       IF Present(menu, req'.path)
       THEN \E i \in 1..Len(menu) :
              /\ IdMatches(menu[i], ToNumber(req'.path))
              /\ res'.status = 200 /\ res'.item = <<menu[i]>>
              /\ Len(menu') = Len(menu) - 1
              /\ \A j \in 1..Len(menu') : menu'[j] = (IF j < i THEN menu[j] ELSE menu[j + 1])
              /\ DeleteHandler(menu', nextId', req'.path) = Outcome(menu', nextId', NotFound)
       ELSE res' = NotFound /\ menu' = menu /\ nextId' = nextId]_vars

\* an item in the middle of the collection has been deleted
C6_Witness ==
  /\ req.method = "DELETE" /\ res.status = 200
  /\ res.item[1].id = 2 /\ Ids(menu) = {1, 3, 4}

\* ------------------------------------------------------------ C7
\* C7: after a successful create, a GET by the returned id is answered 200 with the item the
\* create returned, whose name and description are the payload's trimmed, whose price is a
\* number and whose available is true when the payload has none.
C7_CreateThenGet ==
  (req.method = "POST" /\ res.status = 201) =>
    /\ GetHandler(menu, nextId, NatToStr(res.item[1].id)).res = JsonItem(200, res.item[1])
    /\ IsTrimOf(res.item[1].name.s, req.body.name.s)
    /\ IsTrimOf(res.item[1].description.s, req.body.description.s)
    /\ res.item[1].price.t = "number"
    /\ req.body.price.t = "number" => res.item[1].price = req.body.price
    /\ req.body.price.t = "string" => NumToStr(res.item[1].price.n) = req.body.price.s
    /\ req.body.available = Undef => res.item[1].available = Bool(TRUE)

\* a create with a padded name and a price given as a string has succeeded
C7_Witness ==
  /\ req.method = "POST" /\ res.status = 201 /\ req.body = Coerced
  /\ res.item[1].name # req.body.name /\ Len(menu) = 3

\* ------------------------------------------------------------ C8
\* C8: a successful update replaces the item in place: it keeps its id and its position,
\* keeps its stored available when the payload has none, and the size of the collection,
\* the id counter and all other items are unchanged.
C8_UpdateInPlace ==
  [][(req'.method = "PUT" /\ res'.status = 200) =>
       \E i \in 1..Len(menu) :
         /\ IdMatches(menu[i], ToNumber(req'.path))
         /\ Len(menu') = Len(menu) /\ nextId' = nextId
         /\ menu'[i].id = menu[i].id /\ res'.item = <<menu'[i]>>
         /\ IsTrimOf(menu'[i].name.s, req'.body.name.s)
         /\ req'.body.available = Undef => menu'[i].available = menu[i].available
         /\ \A j \in 1..Len(menu) : j # i => menu'[j] = menu[j]]_vars

\* an unavailable item that is not the last has been updated by a payload without available
C8_Witness ==
  /\ req.method = "PUT" /\ res.status = 200 /\ req.body.available = Undef
  /\ res.item[1].available = Bool(FALSE) /\ Len(menu) > 1 /\ menu[1] = res.item[1]

\* ------------------------------------------------------------ C9
\* C9: validation collects the violations of all fields and not only the first: the errors
\* name exactly the fields that violate a rule, the payload with name "Hi", description
\* "short", price -1, category "snack" and ingredients [] is rejected with 400 and exactly 5
\* entries, one per field, and a request that violates no rule gets no 400.
C9_AllViolationsCollected ==
  IsWrite =>
    /\ res.status = 400 <=> ViolatingFields(req.body) # {}
    /\ res.status = 400 => res.kind = "errors" /\ ErrorFields(res.errors) = ViolatingFields(req.body)
    /\ req.body = AllShort =>
         /\ res.status = 400 /\ Len(res.errors) = 5
         /\ ErrorFields(res.errors) = RequiredFields

\* the payload that violates one rule of each required field has been rejected
C9_Witness == req.method = "POST" /\ req.body = AllShort /\ Len(res.errors) = 5

\* ------------------------------------------------------------ C10
\* C10: a list request is answered 200 with the whole collection in stored order and changes
\* neither the collection nor the id counter, so that a second list request gets the same
\* answer.
C10_ListReadsOnly ==
  [][(req'.method = "GET" /\ req'.route = "/api/menu") =>
       /\ res' = JsonList(200, menu)
       /\ menu' = menu /\ nextId' = nextId
       /\ ListHandler(menu', nextId').res = res']_vars

\* a collection that creates and deletes have changed has been listed
C10_Witness ==
  /\ req.method = "GET" /\ req.route = "/api/menu"
  /\ res.list = menu /\ Ids(menu) = {2, 3, 4}

====
